---- MODULE Spec2Model ----
(***************************************************************************)
(* State-machine model of the spider crawler: Website (website.rs), Page   *)
(* (page.rs) and Configuration (configuration.rs).                         *)
(*                                                                         *)
(* The engine thread runs crawl()/scrape()/crawl_sync(); in the two        *)
(* concurrent variants every admitted link becomes a task of the rayon     *)
(* pool that reports through an mpsc channel.                              *)
(***************************************************************************)
EXTENDS Integers, Sequences, FiniteSets, TLC

\* ------------------------------------------------------------------ bounds
MaxConcurrency == 2   \* largest configuration.concurrency tried
MaxLinks       == 3   \* largest number of hyperlinks in a generated site
MaxCalls       == 2   \* how many times crawl()/scrape()/crawl_sync() is called

\* ------------------------------------------------------------------- URLs
\* A Url is its host and its path (scheme, port and query play no part in
\* the engine; fragments are already stripped by Page::abs_path).
Url(h, p) == [host |-> h, path |-> p]

IpHosts == {"0.0.0.0", "1.1.1.1"}

A0 == Url("a.com", "/")
A1 == Url("a.com", "/x")
B0 == Url("b.com", "/")
I0 == Url("0.0.0.0", "/")
I1 == Url("1.1.1.1", "/")

URLs  == {A0, A1, B0, I0, I1}
Seeds == {A0, I0}

None == "None"

\* Url::domain(): the host when it is a domain name, None for an IP address.
UrlDomain(u) == IF u.host \in IpHosts THEN None ELSE u.host

\* ------------------------------------------------------------------ pages
\* A document body is the set of hrefs its anchors resolve to; the empty
\* string (what the fetcher yields on any failure) is a body of its own.
EmptyHtml == [empty |-> TRUE, hrefs |-> {}]
Html(hs)  == [empty |-> FALSE, hrefs |-> hs]

\* Page::build: a page is its url and the html fetched for it (base is the
\* parsed url, so it carries no information of its own).
PageBuild(url, html) == [url |-> url, html |-> html]

\* Page::links yields the hrefs of the body and clears the body.
PageLinks(page)     == page.html.hrefs
PageAfterLinks(page) == [page EXCEPT !.html = EmptyHtml]

\* ---------------------------------------------------------- configuration
FollowLinks == {"ALL", "HOSTNAME", "SAMEDOMAIN", "SUBDOMAINS", "NONE"}

DefaultDelay == 250   \* Configuration::new, milliseconds
DefaultAgent == "spider"
Agents       == {"*", DefaultAgent}

\* Configuration::new followed by Default::default for the other fields.
ConfigurationNew(c) ==
  [ respect_robots_txt |-> FALSE,
    blacklist_url      |-> {},
    follow_links       |-> "HOSTNAME",
    user_agent         |-> DefaultAgent,
    delay              |-> DefaultDelay,
    concurrency        |-> c ]

\* ----------------------------------------------------------------- robots
\* A robots.txt: per agent either no entry or the entry's disallowed urls
\* and its crawl delay in seconds (an Option: {} or a one-element set).
NoEntry == [present |-> FALSE, disallow |-> {}, crawl_delay |-> {}]
Entry(d, cd) == [present |-> TRUE, disallow |-> d, crawl_delay |-> cd]

RobotsTxt(star, agent) == [e \in Agents |-> IF e = "*" THEN star ELSE agent]

EmptyRobots == RobotsTxt(NoEntry, NoEntry)

RobotsFiles ==
  { EmptyRobots,
    RobotsTxt(Entry({A1}, {10}), NoEntry),
    RobotsTxt(Entry({}, {}), Entry({A1}, {60})) }

\* RobotFileParser::new: nothing read yet (mtime() == 0).
RobotFileParserNew == [mtime |-> 0, user_agent |-> "", entries |-> EmptyRobots]

\* The entry RobotFileParser consults for a user agent: the first entry that
\* applies to it, the "*" entry otherwise.
RobotsEntryFor(rfp, agent) ==
  IF agent # "*" /\ rfp.entries[agent].present THEN rfp.entries[agent]
  ELSE rfp.entries["*"]

\* RobotFileParser::can_fetch: nothing is allowed until robots.txt was read.
RobotsCanFetch(rfp, agent, url) ==
  /\ rfp.mtime # 0
  /\ url \notin RobotsEntryFor(rfp, agent).disallow

\* RobotFileParser::get_crawl_delay as an Option of milliseconds.
RobotsCrawlDelay(rfp, agent) ==
  IF rfp.mtime = 0 THEN {}
  ELSE {s * 1000 : s \in RobotsEntryFor(rfp, agent).crawl_delay}

\* black_list::contains: the link is one of the blacklisted urls.
BlacklistContains(blacklist, link) == link \in blacklist

\* ------------------------------------------------------------------ state
VARIABLES
  configuration,          \* Website.configuration
  domain,                 \* Website.domain: the start url
  links,                  \* Website.links: the frontier
  links_visited,          \* Website.links_visited
  pages,                  \* Website.pages
  on_link_find_callback,  \* Website.on_link_find_callback, as a map of urls
  robot_file_parser,      \* Website.robot_file_parser
  site,                   \* the web: the hrefs of each url's document
  down,                   \* the urls whose fetch fails
  robots_txt,             \* the robots.txt the site serves
  robots_down,            \* the request for robots.txt fails
  pc,                     \* where the engine thread is
  mode,                   \* which of crawl / scrape / crawl_sync is running
  iter,                   \* what `for link in self.links.iter()` has left
  new_links,              \* the round's local new_links
  tx,                     \* the engine still holds its Sender
  chan,                   \* the messages in the channel
  task,                   \* per link: the state of the task spawned for it
  task_page,              \* per link: what its task holds to send
  calls,                  \* how many crawls were started
  round,                  \* history: rounds started so far
  fetch_count,            \* history: per url, the Page::new calls made for it
  hook_calls,             \* history: per link, the hook calls made for it
  dispatch_count,         \* history: per url, how often it was admitted
  dispatch_round,         \* history: per url, the round that admitted it
  found_round,            \* history: per url, the round that first found it
  discovered,             \* history: the links the round's pages yielded
  admitted,               \* history: the links the round admitted
  robots_reads,           \* history: the RobotFileParser::read calls made
  received                \* history: the messages the round's drain received

vars == << configuration, domain, links, links_visited, pages,
           on_link_find_callback, robot_file_parser, site, down, robots_txt,
           pc, mode, iter, new_links, tx, chan, task, task_page, calls,
           round, fetch_count, hook_calls, dispatch_count, dispatch_round,
           found_round, discovered, admitted, robots_down, robots_reads,
           received >>

website == << configuration, domain, links, links_visited, pages,
              on_link_find_callback, robot_file_parser >>
world   == << site, down, robots_txt, robots_down >>
history == << round, fetch_count, hook_calls, dispatch_count, dispatch_round,
              found_round, discovered, admitted >>

\* ---------------------------------------------------------------- helpers
\* utils::get::fetch_page_html: the body, or the empty string on any failure.
FetchPageHtml(url) == IF url \in down THEN EmptyHtml ELSE Html(site[url])

\* Page::new: fetch, then build.
PageNew(url) == PageBuild(url, FetchPageHtml(url))

\* Website::get_delay / delay_enabled
DelayEnabled == configuration.delay > 0

\* Website::is_allowed_robots
IsAllowedRobots(link) == RobotsCanFetch(robot_file_parser, "*", link)

\* The match on configuration.follow_links that ends Website::is_allowed.
ScopeAllows(link) ==
  CASE configuration.follow_links = "NONE"       -> FALSE
    [] configuration.follow_links = "HOSTNAME"   -> UrlDomain(link) = UrlDomain(domain)
    [] configuration.follow_links = "SUBDOMAINS" -> FALSE
    [] configuration.follow_links = "SAMEDOMAIN" -> FALSE
    [] configuration.follow_links = "ALL"        -> TRUE

\* mutant: is_allowed without the visited check.
IsAllowedInRevisit(visited, link) ==
  IF BlacklistContains(configuration.blacklist_url, link) THEN FALSE
  ELSE IF configuration.respect_robots_txt /\ ~IsAllowedRobots(link) THEN FALSE
  ELSE ScopeAllows(link)

\* mutant: is_allowed without the blacklist check.
IsAllowedInNoBlacklist(visited, link) ==
  IF link \in visited THEN FALSE
  ELSE IF configuration.respect_robots_txt /\ ~IsAllowedRobots(link) THEN FALSE
  ELSE ScopeAllows(link)

\* Website::is_allowed, over a given visited set.
IsAllowedIn(visited, link) ==
  IF link \in visited THEN FALSE
  ELSE IF BlacklistContains(configuration.blacklist_url, link) THEN FALSE
  ELSE IF configuration.respect_robots_txt /\ ~IsAllowedRobots(link) THEN FALSE
  ELSE ScopeAllows(link)

IsAllowed(link) == IsAllowedIn(links_visited, link)

\* The threads rayon starts when num_threads is 0: one per logical CPU.
NumCpus == MaxConcurrency

\* The worker pool of create_thread_pool: num_threads(0) does not fail, it
\* leaves the number of threads to rayon.
PoolSize ==
  IF configuration.concurrency = 0 THEN NumCpus
  ELSE configuration.concurrency

\* Tasks that hold a pool thread.
Busy == {u \in URLs : task[u] \in {"running", "fetched"}}

\* Tasks whose Sender clone is still alive.
Alive == {u \in URLs : task[u] # "none"}

NoMsg == [kind |-> "none"]
LinksMsg(ls)  == [kind |-> "links", links |-> ls]
PageMsg(page) == [kind |-> "page", page |-> page]

\* history: the round's yield, and the round that first found each url
Found(ls) ==
  /\ discovered' = discovered \cup ls
  /\ found_round' = [u \in URLs |->
       IF u \in ls /\ found_round[u] < 0 THEN round ELSE found_round[u]]

\* ------------------------------------------------------------------- Init
\* The hyperlinks a generated site may hold, and the sites themselves.
LinkPool ==
  { <<A0, A1>>, <<A0, B0>>, <<A0, I1>>, <<A1, A0>>, <<A1, B0>>,
    <<B0, A1>>, <<B0, I1>>, <<I0, I1>>, <<I0, A0>>, <<I1, I0>> }

SiteOf(edges) == [u \in URLs |-> {v \in URLs : <<u, v>> \in edges}]

Sites == {SiteOf(e) : e \in {x \in SUBSET LinkPool : Cardinality(x) <= MaxLinks}}

\* A site whose start page fans out to every other url.
FanOut == [u \in URLs |->
            IF u \in Seeds THEN URLs \ {u}
            ELSE IF u = A1 THEN {A0, B0}
            ELSE {}]

Identity == [u \in URLs |-> u]
\* A hook that sends every request for another host to the start host.
ToA1     == [u \in URLs |-> IF u.host = "a.com" THEN u ELSE A1]
Hooks    == {Identity, ToA1}

\* Website::new(seed), then the caller's adjustments of the configuration.
WebsiteNew(seed, cfg, hook) ==
  /\ configuration = cfg
  /\ domain = seed
  /\ links = {seed}
  /\ links_visited = {}
  /\ pages = << >>
  /\ on_link_find_callback = hook
  /\ robot_file_parser = RobotFileParserNew

EngineIdle ==
  /\ pc = "idle"
  /\ mode = "none"
  /\ iter = {}
  /\ new_links = {}
  /\ tx = FALSE
  /\ chan = << >>
  /\ task = [u \in URLs |-> "none"]
  /\ task_page = [u \in URLs |-> NoMsg]
  /\ calls = 0
  /\ round = 0
  /\ fetch_count = [u \in URLs |-> 0]
  /\ hook_calls = [u \in URLs |-> 0]
  /\ dispatch_count = [u \in URLs |-> 0]
  /\ dispatch_round = [u \in URLs |-> -1]
  /\ found_round = [u \in URLs |-> IF u = domain THEN 0 ELSE -1]
  /\ discovered = {}
  /\ admitted = {}
  /\ robots_reads = 0
  /\ received = 0

\* The failures tried: no url down, or one.
Downs == {{}} \cup {{u} : u \in URLs}

\* Generated sites under the default configuration, following the start
\* host or every link.
SitesInit(concurrencies, downs) ==
  /\ site \in Sites
  /\ down \in downs
  /\ robots_txt = EmptyRobots
  /\ robots_down = FALSE
  /\ \E seed \in Seeds, fl \in {"HOSTNAME", "ALL"}, c \in concurrencies :
       WebsiteNew(seed, [ConfigurationNew(c) EXCEPT !.follow_links = fl],
                  Identity)

\* The fan-out site under every configuration.
ConfigsInit(concurrencies, delays, downs) ==
  /\ site = FanOut
  /\ down \in downs
  /\ \E seed \in Seeds, fl \in FollowLinks, rr \in BOOLEAN,
        bl \in {{}, {A0}, {A1}, {B0}}, d \in delays, c \in concurrencies,
        hook \in Hooks :
       /\ robots_down \in (IF rr THEN BOOLEAN ELSE {FALSE})
       /\ robots_txt \in (IF rr /\ ~robots_down THEN RobotsFiles
                          ELSE {EmptyRobots})
       /\ WebsiteNew(seed,
                     [ConfigurationNew(c) EXCEPT
                        !.follow_links = fl, !.respect_robots_txt = rr,
                        !.blacklist_url = bl, !.delay = d],
                     hook)

InitSites   == SitesInit(1..MaxConcurrency, Downs)
InitConfigs == ConfigsInit(1..MaxConcurrency, {0, DefaultDelay}, {{}, {A0}, {A1}})
\* The caller set configuration.concurrency = 0.
InitZero    == SitesInit({0}, {{}})

Init == (InitSites \/ InitConfigs \/ InitZero) /\ EngineIdle

\* ------------------------------------------------------------------ setup
\* configure_robots_parser reads robots.txt: the policy is respected and the
\* parser has read none so far.
RobotsRead == configuration.respect_robots_txt /\ robot_file_parser.mtime = 0

\* Website::configure_robots_parser: the parser after it ran. A read whose
\* request fails leaves the parser without a policy, and mtime() at 0.
RobotsAfterSetup ==
  IF ~RobotsRead THEN robot_file_parser
  ELSE IF robots_down
       THEN [robot_file_parser EXCEPT !.user_agent = configuration.user_agent]
       ELSE [mtime |-> 1, user_agent |-> configuration.user_agent,
             entries |-> robots_txt]

\* mutant: the crawl delay is read for the "*" agent.
ConfigAfterSetupStar ==
  IF RobotsRead
  THEN LET cd == RobotsCrawlDelay(RobotsAfterSetup, "*")
       IN  [configuration EXCEPT
              !.delay = IF cd = {} THEN @ ELSE CHOOSE ms \in cd : TRUE]
  ELSE configuration

\* Website::configure_robots_parser: the configuration after it ran.
ConfigAfterSetup ==
  IF RobotsRead
  THEN LET cd == RobotsCrawlDelay(RobotsAfterSetup, RobotsAfterSetup.user_agent)
       IN  [configuration EXCEPT
              !.delay = IF cd = {} THEN @ ELSE CHOOSE ms \in cd : TRUE]
  ELSE configuration

\* mutant: a call puts the start url back into the frontier.
StartReseed(m) ==
  /\ pc \in {"idle", "done"}
  /\ calls < MaxCalls
  /\ calls' = calls + 1
  /\ mode' = m
  /\ robot_file_parser' = RobotsAfterSetup
  /\ configuration' = ConfigAfterSetup
  /\ robots_reads' = IF RobotsRead THEN robots_reads + 1 ELSE robots_reads
  /\ links' = {domain}
  /\ pc' = "loop"
  /\ UNCHANGED << domain, links_visited, pages, on_link_find_callback, world,
                  received, iter, new_links, tx, chan, task, task_page,
                  history >>

\* Website::setup, then entering the crawl loop of the chosen variant.
Start(m) ==
  /\ pc \in {"idle", "done"}
  /\ calls < MaxCalls
  /\ calls' = calls + 1
  /\ mode' = m
  /\ robot_file_parser' = RobotsAfterSetup
  /\ configuration' = ConfigAfterSetup
  /\ robots_reads' = IF RobotsRead THEN robots_reads + 1 ELSE robots_reads
  /\ pc' = "loop"
  /\ UNCHANGED << domain, links, links_visited, pages, on_link_find_callback,
                  world, received, iter, new_links, tx, chan, task, task_page,
                  history >>

\* Website::crawl
Crawl == Start("crawl")

\* Website::scrape
Scrape == Start("scrape")

\* Website::crawl_sync
CrawlSync == Start("sync")

\* ------------------------------------------------------------- the rounds
\* `while !self.links.is_empty()` entered: a round begins.
RoundBegin ==
  /\ pc = "loop"
  /\ links # {}
  /\ iter' = links
  /\ round' = round + 1
  /\ discovered' = {}
  /\ admitted' = {}
  /\ new_links' = {}
  /\ chan' = << >>
  /\ received' = 0
  /\ tx' = (mode # "sync")
  /\ pc' = IF mode = "sync" THEN "seq" ELSE "dispatch"
  /\ UNCHANGED << website, world, robots_reads, mode, task, task_page, calls,
                  fetch_count, hook_calls, dispatch_count, dispatch_round,
                  found_round >>

\* `while !self.links.is_empty()` left: the crawl returns.
Return ==
  /\ pc = "loop"
  /\ links = {}
  /\ pc' = "done"
  /\ UNCHANGED << website, world, robots_reads, received, mode, iter,
                  new_links, tx, chan, task, task_page, calls, history >>

\* history: link was admitted in this round
Admit(link) ==
  /\ admitted' = admitted \cup {link}
  /\ dispatch_count' = [dispatch_count EXCEPT ![link] = @ + 1]
  /\ dispatch_round' = [dispatch_round EXCEPT ![link] = round]

\* mutant: the admitted link is spawned but never marked visited.
DispatchUnmarked(link) ==
  /\ pc = "dispatch"
  /\ link \in iter
  /\ iter' = iter \ {link}
  /\ IF IsAllowed(link)
     THEN /\ task' = [task EXCEPT ![link] = "queued"]
          /\ Admit(link)
     ELSE UNCHANGED << task, admitted, dispatch_count, dispatch_round >>
  /\ UNCHANGED << configuration, domain, links, links_visited, pages,
                  on_link_find_callback, robot_file_parser, world,
                  robots_reads, received, pc, mode, new_links, tx, chan,
                  task_page, calls, round, fetch_count, hook_calls,
                  found_round, discovered >>

\* One pass of `for link in self.links.iter()` in crawl_concurrent and
\* scrape_concurrent: admit, mark visited, spawn.
Dispatch(link) ==
  /\ pc = "dispatch"
  /\ link \in iter
  /\ iter' = iter \ {link}
  /\ IF IsAllowed(link)
     THEN /\ links_visited' = links_visited \cup {link}
          /\ task' = [task EXCEPT ![link] = "queued"]
          /\ Admit(link)
     ELSE UNCHANGED << links_visited, task, admitted, dispatch_count,
                       dispatch_round >>
  /\ UNCHANGED << configuration, domain, links, pages, on_link_find_callback,
                  robot_file_parser, world, robots_reads, received, pc, mode,
                  new_links, tx, chan, task_page, calls, round, fetch_count,
                  hook_calls, found_round, discovered >>

\* mutant: the engine keeps its Sender, so the channel never closes.
DropTxForgotten ==
  /\ pc = "dispatch"
  /\ iter = {}
  /\ new_links' = {}
  /\ pc' = "collect"
  /\ UNCHANGED << website, world, robots_reads, received, mode, iter, tx, chan,
                  task, task_page, calls, history >>

\* drop(tx) after the dispatch loop; new_links is created.
DropTx ==
  /\ pc = "dispatch"
  /\ iter = {}
  /\ tx' = FALSE
  /\ new_links' = {}
  /\ pc' = "collect"
  /\ UNCHANGED << website, world, robots_reads, received, mode, iter, chan,
                  task, task_page, calls, history >>

\* ------------------------------------------------------------ the workers
\* A pool thread picks up the closure spawned for link u; it first sleeps
\* the delay when delay_enabled.
WorkerStart(u) ==
  /\ task[u] = "queued"
  /\ Cardinality(Busy) < PoolSize
  /\ task' = [task EXCEPT ![u] = "running"]
  /\ UNCHANGED << website, world, robots_reads, received, pc, mode, iter,
                  new_links, tx, chan, task_page, calls, history >>

\* mutant: the closure calls the hook and fetches the admitted link, not
\* the hook's result.
WorkerFetchUnhooked(u) ==
  /\ task[u] = "running"
  /\ LET link_result == u
         page        == PageNew(link_result)
     IN  /\ hook_calls' = [hook_calls EXCEPT ![u] = @ + 1]
         /\ fetch_count' = [fetch_count EXCEPT ![link_result] = @ + 1]
         /\ IF mode = "crawl"
            THEN /\ task_page' =
                      [task_page EXCEPT ![u] = LinksMsg(PageLinks(page))]
                 /\ Found(PageLinks(page))
            ELSE /\ task_page' = [task_page EXCEPT ![u] = PageMsg(page)]
                 /\ UNCHANGED << discovered, found_round >>
  /\ task' = [task EXCEPT ![u] = "fetched"]
  /\ UNCHANGED << website, world, robots_reads, received, pc, mode, iter,
                  new_links, tx, chan, calls, round, dispatch_count,
                  dispatch_round, admitted >>

\* mutant: the closure puts the links it found into the frontier itself.
WorkerFetchShared(u) ==
  /\ task[u] = "running"
  /\ LET link_result == on_link_find_callback[u]
         page        == PageNew(link_result)
     IN  /\ hook_calls' = [hook_calls EXCEPT ![u] = @ + 1]
         /\ fetch_count' = [fetch_count EXCEPT ![link_result] = @ + 1]
         /\ links' = links \cup PageLinks(page)
         /\ IF mode = "crawl"
            THEN /\ task_page' =
                      [task_page EXCEPT ![u] = LinksMsg(PageLinks(page))]
                 /\ Found(PageLinks(page))
            ELSE /\ task_page' = [task_page EXCEPT ![u] = PageMsg(page)]
                 /\ UNCHANGED << discovered, found_round >>
  /\ task' = [task EXCEPT ![u] = "fetched"]
  /\ UNCHANGED << configuration, domain, links_visited, pages,
                  on_link_find_callback, robot_file_parser, world,
                  robots_reads, received, pc, mode, iter, new_links, tx, chan,
                  calls, round, dispatch_count, dispatch_round, admitted >>

\* The closure's body: the link hook, Page::new and, in crawl_concurrent,
\* page.links().
WorkerFetch(u) ==
  /\ task[u] = "running"
  /\ LET link_result == on_link_find_callback[u]
         page        == PageNew(link_result)
     IN  /\ hook_calls' = [hook_calls EXCEPT ![u] = @ + 1]
         /\ fetch_count' = [fetch_count EXCEPT ![link_result] = @ + 1]
         /\ IF mode = "crawl"
            THEN /\ task_page' =
                      [task_page EXCEPT ![u] = LinksMsg(PageLinks(page))]
                 /\ Found(PageLinks(page))
            ELSE /\ task_page' = [task_page EXCEPT ![u] = PageMsg(page)]
                 /\ UNCHANGED << discovered, found_round >>
  /\ task' = [task EXCEPT ![u] = "fetched"]
  /\ UNCHANGED << website, world, robots_reads, received, pc, mode, iter,
                  new_links, tx, chan, calls, round, dispatch_count,
                  dispatch_round, admitted >>

\* mutant: a closure whose fetch failed ends without sending.
WorkerSendOnSuccess(u) ==
  /\ task[u] = "fetched"
  /\ chan' = IF on_link_find_callback[u] \in down THEN chan
             ELSE Append(chan, task_page[u])
  /\ task' = [task EXCEPT ![u] = "none"]
  /\ task_page' = [task_page EXCEPT ![u] = NoMsg]
  /\ UNCHANGED << website, world, robots_reads, received, pc, mode, iter,
                  new_links, tx, calls, history >>

\* tx.send(..).unwrap(); the closure ends and its Sender clone is dropped.
WorkerSend(u) ==
  /\ task[u] = "fetched"
  /\ chan' = Append(chan, task_page[u])
  /\ task' = [task EXCEPT ![u] = "none"]
  /\ task_page' = [task_page EXCEPT ![u] = NoMsg]
  /\ UNCHANGED << website, world, robots_reads, received, pc, mode, iter,
                  new_links, tx, calls, history >>

\* --------------------------------------------------------- collect, merge
\* mutant: a received message replaces new_links instead of extending it.
RecvOverwrite ==
  /\ pc = "collect"
  /\ chan # << >>
  /\ chan' = Tail(chan)
  /\ received' = received + 1
  /\ IF mode = "crawl"
     THEN /\ new_links' = Head(chan).links
          /\ UNCHANGED << pages, discovered, found_round >>
     ELSE LET page == Head(chan).page
          IN  /\ new_links' = PageLinks(page)
              /\ pages' = Append(pages, PageAfterLinks(page))
              /\ Found(PageLinks(page))
  /\ UNCHANGED << configuration, domain, links, links_visited,
                  on_link_find_callback, robot_file_parser, world,
                  robots_reads, pc, mode, iter, tx, task, task_page, calls,
                  round, fetch_count, hook_calls, dispatch_count,
                  dispatch_round, admitted >>

\* One message of rx.into_iter().for_each(..).
Recv ==
  /\ pc = "collect"
  /\ chan # << >>
  /\ chan' = Tail(chan)
  /\ received' = received + 1
  /\ IF mode = "crawl"
     THEN /\ new_links' = new_links \cup Head(chan).links
          /\ UNCHANGED << pages, discovered, found_round >>
     ELSE LET page == Head(chan).page
          IN  /\ new_links' = new_links \cup PageLinks(page)
              /\ pages' = Append(pages, PageAfterLinks(page))
              /\ Found(PageLinks(page))
  /\ UNCHANGED << configuration, domain, links, links_visited,
                  on_link_find_callback, robot_file_parser, world,
                  robots_reads, pc, mode, iter, tx, task, task_page, calls,
                  round, fetch_count, hook_calls, dispatch_count,
                  dispatch_round, admitted >>

\* mutant: the merge forgets to subtract the visited urls.
MergeRoundWhole(found) == found

\* mutant: the merge keeps the frontier's links that were not visited.
MergeRoundRequeue(found) == (found \cup links) \ links_visited

\* `self.links = &new_links - &self.links_visited`
MergeRound(found) == found \ links_visited

\* mutant: the merge runs as soon as the channel is empty (try_iter), not
\* when every Sender is gone.
MergeEarly ==
  /\ pc = "collect"
  /\ chan = << >>
  /\ links' = MergeRound(new_links)
  /\ new_links' = {}
  /\ pc' = "loop"
  /\ UNCHANGED << configuration, domain, links_visited, pages,
                  on_link_find_callback, robot_file_parser, world,
                  robots_reads, received, mode, iter, tx, chan, task,
                  task_page, calls, history >>

\* The channel is closed and drained: the round's merge.
Merge ==
  /\ pc = "collect"
  /\ chan = << >>
  /\ ~tx
  /\ Alive = {}
  /\ links' = MergeRound(new_links)
  /\ new_links' = {}
  /\ pc' = "loop"
  /\ UNCHANGED << configuration, domain, links_visited, pages,
                  on_link_find_callback, robot_file_parser, world,
                  robots_reads, received, mode, iter, tx, chan, task,
                  task_page, calls, history >>

\* ------------------------------------------------------- crawl_sequential
\* mutant: crawl_sequential marks a link visited only when its page has a
\* body.
SeqStepMarkOnSuccess(link) ==
  /\ pc = "seq"
  /\ link \in iter
  /\ iter' = iter \ {link}
  /\ IF IsAllowed(link)
     THEN LET link_result == on_link_find_callback[link]
              page        == PageNew(link_result)
          IN  /\ links_visited' = IF page.html.empty THEN links_visited
                                  ELSE links_visited \cup {link}
              /\ Admit(link)
              /\ hook_calls' = [hook_calls EXCEPT ![link] = @ + 1]
              /\ fetch_count' = [fetch_count EXCEPT ![link_result] = @ + 1]
              /\ new_links' = new_links \cup PageLinks(page)
              /\ Found(PageLinks(page))
     ELSE UNCHANGED << links_visited, new_links, history >>
  /\ round' = round
  /\ UNCHANGED << configuration, domain, links, pages, on_link_find_callback,
                  robot_file_parser, world, robots_reads, received, pc, mode,
                  tx, chan, task, task_page, calls >>

\* One pass of `for link in self.links.iter()` in crawl_sequential.
SeqStep(link) ==
  /\ pc = "seq"
  /\ link \in iter
  /\ iter' = iter \ {link}
  /\ IF IsAllowed(link)
     THEN LET link_result == on_link_find_callback[link]
              page        == PageNew(link_result)
          IN  /\ links_visited' = links_visited \cup {link}
              /\ Admit(link)
              /\ hook_calls' = [hook_calls EXCEPT ![link] = @ + 1]
              /\ fetch_count' = [fetch_count EXCEPT ![link_result] = @ + 1]
              /\ new_links' = new_links \cup PageLinks(page)
              /\ Found(PageLinks(page))
     ELSE UNCHANGED << links_visited, new_links, history >>
  /\ round' = round
  /\ UNCHANGED << configuration, domain, links, pages, on_link_find_callback,
                  robot_file_parser, world, robots_reads, received, pc, mode,
                  tx, chan, task, task_page, calls >>

\* The merge that ends a round of crawl_sequential.
SeqMerge ==
  /\ pc = "seq"
  /\ iter = {}
  /\ links' = MergeRound(new_links)
  /\ new_links' = {}
  /\ pc' = "loop"
  /\ UNCHANGED << configuration, domain, links_visited, pages,
                  on_link_find_callback, robot_file_parser, world,
                  robots_reads, received, mode, iter, tx, chan, task,
                  task_page, calls, history >>

\* ------------------------------------------------------------------- Next
DispatchStep == \E link \in URLs : Dispatch(link)
StartStep    == \E u \in URLs : WorkerStart(u)
FetchStep    == \E u \in URLs : WorkerFetch(u)
SendStep     == \E u \in URLs : WorkerSend(u)
SeqLoopStep  == \E link \in URLs : SeqStep(link)

Next ==
  \/ Crawl
  \/ Scrape
  \/ CrawlSync
  \/ RoundBegin
  \/ Return
  \/ DispatchStep
  \/ DropTx
  \/ StartStep
  \/ FetchStep
  \/ SendStep
  \/ Recv
  \/ Merge
  \/ SeqLoopStep
  \/ SeqMerge

Spec == Init /\ [][Next]_vars

\* The scheduling the code relies on: the engine thread keeps running once a
\* crawl was started, and the pool runs every spawned closure to its end.
\* Starting a crawl is the caller's choice and carries no fairness.
EngineRuns ==
  \/ RoundBegin \/ Return \/ DispatchStep \/ DropTx \/ Recv \/ Merge
  \/ SeqLoopStep \/ SeqMerge

\* The liveness runs take the same sites and configurations with the
\* largest pool for the generated sites and one thread for the fan-out.
FairInit ==
  /\ \/ SitesInit({MaxConcurrency}, {{}, {A1}})
     \/ ConfigsInit({1}, {DefaultDelay}, {{}, {A1}})
  /\ EngineIdle

FairSpec ==
  /\ FairInit
  /\ [][Next]_vars
  /\ WF_vars(EngineRuns)
  /\ WF_vars(StartStep \/ FetchStep \/ SendStep)

\* ----------------------------------------------------------------- claims
Running == pc \notin {"idle", "done"}

\* C1: every started crawl(), scrape() and crawl_sync() reaches Done (the
\* loop `while !links.is_empty()` exits), whatever fetches fail and whatever
\* links is_allowed rejects, given that every spawned task runs to its end.
C1_Termination == Running ~> (pc = "done")

\* C1 witness: a crawl is done after several rounds in which a fetch failed
\* and a discovered link was rejected.
C1_Witness ==
  /\ pc = "done"
  /\ round >= 2
  /\ \E u \in links_visited : on_link_find_callback[u] \in down
  /\ \E u \in URLs : found_round[u] > 0 /\ u \notin links_visited

\* The visited links whose request the link hook turns into a request for v.
RequestsFor(v) == {u \in links_visited : on_link_find_callback[u] = v}

\* C2 as stated: the fetcher is invoked at most once for every url.
C2_FetchOnce == \A v \in URLs : fetch_count[v] <= 1

\* C2 as amended: every url is admitted at most once, and a url is fetched
\* at most once for each visited link whose request the hook turns into it;
\* so at most once when the hook sends no two links to the same url, as the
\* default identity hook does.
C2_FetchOncePerAdmitted ==
  \A v \in URLs :
    /\ dispatch_count[v] <= 1
    /\ fetch_count[v] <= Cardinality(RequestsFor(v))
    /\ on_link_find_callback = Identity => fetch_count[v] <= 1

\* C2 witness: a crawl is done in which a link was found again after its
\* fetch.
C2_Witness ==
  /\ pc = "done"
  /\ on_link_find_callback = Identity
  /\ \E v \in URLs :
       /\ fetch_count[v] = 1
       /\ \E u \in links_visited : u # v /\ v \in site[u] /\ u \notin down
                                   /\ dispatch_round[u] >= dispatch_round[v]

\* Just merged: the engine is back at the loop head after a round.
Merged == pc = "loop" /\ round > 0

\* C3: after every merge the frontier and the visited set are disjoint and
\* the frontier is the links the round discovered minus the visited ones.
C3_MergeAlgebra ==
  Merged => /\ links \cap links_visited = {}
            /\ links = discovered \ links_visited

\* C3 witness: a merge that dropped visited links and kept new ones.
C3_Witness ==
  /\ Merged
  /\ links # {}
  /\ discovered \cap links_visited # {}

\* C4: a link is admitted only in a round after the one that first found
\* it, no task outlives the round that spawned it, and the channel holds
\* only results of the current round's tasks: a round's tasks have all
\* reported and the channel is drained before the next dispatch.
C4_RoundBarrier ==
  \A u \in URLs :
    /\ dispatch_count[u] > 0 =>
         /\ found_round[u] >= 0
         /\ found_round[u] < dispatch_round[u]
    /\ task[u] # "none" => dispatch_round[u] = round
    /\ Len(chan) <= Cardinality({v \in admitted : task[v] = "none"})

\* C4 witness: round 2 of a concurrent crawl dispatches a link that a task
\* of round 1 found, while another task of round 2 is already running.
C4_Witness ==
  /\ mode \in {"crawl", "scrape"}
  /\ pc = "dispatch"
  /\ round = 2
  /\ \E u, v \in URLs :
       /\ u # v
       /\ found_round[u] = 1 /\ dispatch_round[u] = 2
       /\ task[v] = "fetched" /\ v \in admitted

\* crawl_sequential as a function of the frontier and the visited set: the
\* visited set it ends with. A round admits the allowed links of the
\* frontier (they are distinct, so the order of the pass plays no part),
\* fetches each through the hook and merges the links found.
RECURSIVE CrawlSequentialFrom(_, _)
CrawlSequentialFrom(frontier, visited) ==
  IF frontier = {} THEN visited
  ELSE LET allowed == {l \in frontier : IsAllowedIn(visited, l)}
           seen    == visited \cup allowed
           found   == UNION {PageLinks(PageNew(on_link_find_callback[l])) :
                             l \in allowed}
       IN  CrawlSequentialFrom(found \ seen, seen)

\* C5: for the same seed, configuration and site, crawl() ends with the
\* visited set crawl_sync() ends with, under every interleaving of the
\* workers: every variant ends with the set crawl_sequential computes.
C5_SameVisited ==
  pc = "done" => links_visited = CrawlSequentialFrom({domain}, {})

\* C5 witness: a concurrent crawl of several rounds is done, two of its
\* tasks having run side by side.
C5_Witness ==
  /\ pc = "done"
  /\ mode = "crawl"
  /\ calls = 1
  /\ PoolSize >= 2
  /\ round >= 3
  /\ Cardinality(links_visited) >= 3
  /\ \E u, v \in links_visited : u # v /\ dispatch_round[u] = dispatch_round[v]

\* C6 as stated: a blacklisted url is never visited and never fetched.
C6_BlacklistNeverFetched ==
  \A b \in configuration.blacklist_url :
    b \notin links_visited /\ fetch_count[b] = 0

\* C6 as amended: a blacklisted url is never visited, and it is fetched
\* only when the link hook turns the request of a visited link into a
\* request for it; never under the default identity hook.
C6_BlacklistNeverVisited ==
  \A b \in configuration.blacklist_url :
    /\ b \notin links_visited
    /\ fetch_count[b] <= Cardinality(RequestsFor(b))
    /\ on_link_find_callback = Identity => fetch_count[b] = 0

\* C6 witness: a crawl is done in which two visited pages link to the
\* blacklisted url.
C6_Witness ==
  /\ pc = "done"
  /\ \E b \in configuration.blacklist_url :
       \E u, v \in links_visited :
         /\ u # v
         /\ b \in PageLinks(PageNew(on_link_find_callback[u]))
         /\ b \in PageLinks(PageNew(on_link_find_callback[v]))

\* The other conditions of admission hold for the link.
OtherwiseAdmissible(u) ==
  /\ u \notin links_visited
  /\ ~BlacklistContains(configuration.blacklist_url, u)
  /\ configuration.respect_robots_txt => IsAllowedRobots(u)

\* C7: with follow_links = HOSTNAME a link that is otherwise admissible is
\* admitted exactly when its host is the seed's host, so no link to another
\* host is ever visited; stated for the links the engine passes to
\* is_allowed.
C7_HostnameScope ==
  configuration.follow_links = "HOSTNAME" =>
    /\ \A u \in links_visited : u.host = domain.host
    /\ \A u \in iter :
         OtherwiseAdmissible(u) => (IsAllowed(u) <=> u.host = domain.host)

\* The links the page of an admitted link yields: none when its fetch fails.
YieldOf(u) ==
  IF on_link_find_callback[u] \in down THEN {}
  ELSE site[on_link_find_callback[u]]

\* The dispatch loop of the round is over.
Dispatched == pc = "collect" \/ (pc = "seq" /\ iter = {})

ScopeAsStated(u) ==
  CASE configuration.follow_links = "ALL"      -> TRUE
    [] configuration.follow_links = "HOSTNAME" -> u.host = domain.host
    [] OTHER                                   -> FALSE

\* C10: is_allowed(url) is true exactly when url is not visited, matches no
\* blacklist entry, is permitted by the robots policy when
\* respect_robots_txt is set, and passes the scope check; so every visited
\* url passes the blacklist and scope checks. Stated for the links the
\* engine passes to is_allowed.
C10_AllowedIffAll ==
  /\ \A u \in iter :
       IsAllowed(u) <=> (OtherwiseAdmissible(u) /\ ScopeAsStated(u))
  /\ \A u \in links_visited :
       /\ ~BlacklistContains(configuration.blacklist_url, u)
       /\ ScopeAsStated(u)

\* C11: with respect_robots_txt set the robots condition is evaluated for
\* configuration.user_agent: a link the policy denies for that agent is never
\* visited, and a link of the frontier that the policy permits for that agent
\* and that passes the other conditions is admitted, whatever the "*" entry
\* says.
C11_RobotsForAgent ==
  configuration.respect_robots_txt =>
    /\ \A u \in links_visited :
         RobotsCanFetch(robot_file_parser, configuration.user_agent, u)
    /\ \A u \in iter :
         ( /\ u \notin links_visited
           /\ ~BlacklistContains(configuration.blacklist_url, u)
           /\ ScopeAllows(u)
           /\ RobotsCanFetch(robot_file_parser, configuration.user_agent, u) )
         => IsAllowed(u)

\* C12: with follow_links = NONE ("only the URL provided") a crawl() of a
\* seed that no blacklist entry and no robots rule excludes ends with
\* links_visited = {seed}, the seed having been fetched exactly once.
C12_NoneCrawlsSeed ==
  ( /\ pc = "done"
    /\ mode = "crawl"
    /\ configuration.follow_links = "NONE"
    /\ ~BlacklistContains(configuration.blacklist_url, domain)
    /\ ~configuration.respect_robots_txt )
  => /\ links_visited = {domain}
     /\ fetch_count[on_link_find_callback[domain]] = 1

\* C13: a configuration error is fatal at setup. Website::new panics on a
\* seed that does not parse, so no Website exists to crawl; and with
\* configuration.concurrency = 0 no crawl(), scrape() or crawl_sync() starts
\* a round, admits, visits or fetches any URL.
C13_ZeroConcurrencyFatal ==
  configuration.concurrency = 0 =>
    /\ round = 0
    /\ links_visited = {}
    /\ \A u \in URLs : dispatch_count[u] = 0 /\ fetch_count[u] = 0

\* C14: in crawl() and scrape() the number of tasks executing on the pool is
\* at most configuration.concurrency at every moment; the other spawned
\* tasks wait queued.
C14_PoolBound ==
  mode \in {"crawl", "scrape"} =>
    /\ Cardinality(Busy) <= configuration.concurrency
    /\ \A u \in Alive \ Busy : task[u] = "queued"

\* The elements of a set in some order, as iterating a HashSet yields them.
RECURSIVE SeqOfSet(_)
SeqOfSet(S) ==
  IF S = {} THEN << >>
  ELSE LET x == CHOOSE y \in S : TRUE
       IN  << x >> \o SeqOfSet(S \ {x})

\* mutant: get_pages without the records synthesized from links_visited.
GetPagesStored == pages

\* Website::get_pages: the stored pages, or when there are none a page with
\* an empty body for each visited url.
GetPages ==
  IF pages # << >> THEN pages
  ELSE LET visited == SeqOfSet(links_visited)
       IN  [i \in DOMAIN visited |-> PageBuild(visited[i], EmptyHtml)]

\* The records of get_pages() that are for a url.
RecordsOf(u) == {i \in DOMAIN GetPages : GetPages[i].url = u}

\* C15: once a call has returned, with the identity hook get_pages() holds
\* exactly one page record for each url of links_visited and none for any
\* other url, after scrape() (stored pages) as after crawl() and
\* crawl_sync() (synthesized pages), the urls whose fetch failed included.
C15_PagePerVisited ==
  (pc = "done" /\ on_link_find_callback = Identity) =>
    \A u \in URLs :
      Cardinality(RecordsOf(u)) = IF u \in links_visited THEN 1 ELSE 0

\* C15 witness: a scrape() of two rounds or more has returned, one of its
\* fetches having failed.
C15_Witness ==
  /\ pc = "done"
  /\ mode = "scrape"
  /\ on_link_find_callback = Identity
  /\ round >= 2
  /\ Cardinality(links_visited) >= 2
  /\ \E u \in links_visited : u \in down

\* C16: after a scrape() has returned, the page stored for a url whose fetch
\* returned a body still holds that body: its html is not empty.
C16_BodyRetained ==
  (pc = "done" /\ mode = "scrape") =>
    \A i \in DOMAIN pages :
      pages[i].url \notin down => pages[i].html = FetchPageHtml(pages[i].url)

\* The urls is_allowed admits when they come up unvisited.
Admissible == {u \in URLs : IsAllowedIn({}, u)}

\* The BFS levels of the admitted urls from a level on, yield[u] being the
\* links of u's page: a url of the next level is an admitted url, not seen
\* so far, that the page of a url of this level links to.
RECURSIVE BfsLevels(_, _, _)
BfsLevels(yield, level, seen) ==
  IF level = {} THEN << >>
  ELSE LET next == {v \in Admissible \ seen : \E u \in level : v \in yield[u]}
       IN  << level >> \o BfsLevels(yield, next, seen \cup next)

\* The BFS levels from the seed: Levels[k + 1] holds the admitted urls at
\* distance k.
Levels ==
  BfsLevels([u \in URLs |-> YieldOf(u)],
            {domain} \cap Admissible, {domain} \cap Admissible)

ReachableIn(lv) == UNION {lv[k] : k \in DOMAIN lv}

SetMax(S) == CHOOSE x \in S : \A y \in S : y <= x
SetMin(S) == CHOOSE x \in S : \A y \in S : x <= y

\* A page at the greatest distance links to a url that is not admitted.
DeepestLeaks(lv) ==
  \E u \in lv[Len(lv)] : ~(YieldOf(u) \subseteq ReachableIn(lv))

\* The BFS distance of a url found on the page of an admitted url.
DistanceIn(lv, v) ==
  IF v \in ReachableIn(lv) THEN (CHOOSE k \in DOMAIN lv : v \in lv[k]) - 1
  ELSE SetMin({k \in DOMAIN lv : \E u \in lv[k] : v \in YieldOf(u)})

\* The graph's diameter from the seed: the greatest BFS distance of a url
\* reachable through admitted urls.
DiameterIn(lv) ==
  IF lv = << >> THEN 0
  ELSE LET found == ReachableIn(lv) \cup
                      UNION {YieldOf(u) : u \in ReachableIn(lv)}
       IN  SetMax({DistanceIn(lv, v) : v \in found})

\* C17 as stated: with no failed fetch the rounds a returned crawl ran are as
\* many as the diameter from the seed.
C17_RoundsEqualDiameter ==
  (pc = "done" /\ down = {}) => round = DiameterIn(Levels)

\* C17: a returned crawl ran one round for each BFS level of admitted urls,
\* one more than their greatest distance from the seed, and a last round
\* that admits nothing when a page at the greatest distance links to a url
\* that is not admitted; a crawl whose seed is rejected ran one round.
C17_RoundsByDepth ==
  pc = "done" =>
    LET lv == Levels
    IN  round = IF lv = << >> THEN 1
                ELSE Len(lv) + (IF DeepestLeaks(lv) THEN 1 ELSE 0)

\* C17 witness: a crawl without failures over three BFS levels has returned
\* after three rounds, its deepest page linking to visited urls only.
C17_Witness ==
  /\ pc = "done"
  /\ down = {}
  /\ Len(Levels) = 3
  /\ ~DeepestLeaks(Levels)
  /\ round = 3

\* The BFS levels of a crawl without a link hook: every admitted url is
\* fetched as it is.
NoHookLevels ==
  BfsLevels([u \in URLs |-> PageLinks(PageNew(u))],
            {domain} \cap Admissible, {domain} \cap Admissible)

\* C18: the link hook is called exactly once for every admitted url, after
\* the url was admitted and marked visited and in one step with its fetch;
\* the fetch goes to the url the hook returns; links_visited holds the
\* admitted url and not the hook's result; and with the identity hook a
\* returned crawl has visited what a crawl without a hook visits.
C18_HookOncePerAdmitted ==
  /\ \A u \in URLs :
       /\ hook_calls[u] <= 1
       /\ hook_calls[u] > 0 => (dispatch_count[u] > 0 /\ u \in links_visited)
       /\ (dispatch_count[u] > 0 /\ task[u] \notin {"queued", "running"})
            => hook_calls[u] = 1
  /\ \A v \in URLs :
       fetch_count[v] =
         Cardinality({u \in URLs : hook_calls[u] = 1
                                     /\ on_link_find_callback[u] = v})
  /\ links_visited = {u \in URLs : dispatch_count[u] > 0}
  /\ (pc = "done" /\ on_link_find_callback = Identity) =>
       links_visited = ReachableIn(NoHookLevels)

\* C18 witness: a crawl or scrape on the pool has returned in which the hook
\* sent the request for an admitted link to another url: the link is
\* visited and was never fetched, the hook's result is not visited.
C18_Witness ==
  /\ pc = "done"
  /\ mode \in {"crawl", "scrape"}
  /\ \E u \in links_visited :
       /\ on_link_find_callback[u] # u
       /\ hook_calls[u] = 1
       /\ fetch_count[u] = 0
       /\ fetch_count[on_link_find_callback[u]] >= 1
       /\ on_link_find_callback[u] \notin links_visited

\* The crawl delay, in seconds, that the robots.txt served states for the
\* configured user agent: that of the agent's own entry when it has one,
\* that of the "*" entry otherwise. An Option.
PolicyCrawlDelay ==
  IF robots_txt[configuration.user_agent].present
  THEN robots_txt[configuration.user_agent].crawl_delay
  ELSE robots_txt["*"].crawl_delay

\* C19: setup changes nothing of the configuration but the delay, and that
\* only from robots.txt. With respect_robots_txt unset no step changes the
\* configuration or the parser or reads robots.txt. With it set robots.txt
\* is read at most once per crawl, in the setup step before the crawl's
\* first round; a read that gets a policy with a crawl delay for the
\* configured user agent sets the delay to it in milliseconds, and no other
\* step changes the delay.
C19_SetupOnlyDelay ==
  /\ [](robots_reads <= calls)
  /\ []( ( /\ configuration.respect_robots_txt
           /\ robot_file_parser.mtime # 0
           /\ PolicyCrawlDelay # {} )
         => configuration.delay \in {1000 * s : s \in PolicyCrawlDelay} )
  /\ [][ /\ [configuration' EXCEPT !.delay = configuration.delay]
             = configuration
         /\ (configuration' # configuration \/ robots_reads' # robots_reads)
              => (pc \in {"idle", "done"} /\ pc' = "loop" /\ round' = round)
         /\ ~configuration.respect_robots_txt =>
              /\ configuration' = configuration
              /\ robot_file_parser' = robot_file_parser
              /\ robots_reads' = robots_reads
         /\ robots_reads' # robots_reads =>
              (robots_reads' = robots_reads + 1 /\ calls' = calls + 1)
         /\ configuration'.delay \in
              IF /\ robots_reads' # robots_reads
                 /\ ~robots_down
                 /\ PolicyCrawlDelay # {}
              THEN {1000 * s : s \in PolicyCrawlDelay}
              ELSE {configuration.delay} ]_vars

\* C19 witness: a second crawl has returned without reading robots.txt
\* again; the first one read it and took the delay from the entry of the
\* configured user agent, the "*" entry stating none.
C19_Witness ==
  /\ pc = "done"
  /\ calls = 2
  /\ robots_reads = 1
  /\ links_visited # {}
  /\ robots_txt[configuration.user_agent].present
  /\ robots_txt["*"].crawl_delay = {}
  /\ configuration.delay \in {1000 * s : s \in PolicyCrawlDelay}

\* C20: a crawl whose seed is_allowed rejects returns after a single round,
\* with links_visited empty, nothing fetched and the frontier empty. In
\* every round a frontier link that is rejected is dropped: it is not
\* visited, no task is spawned for it, the hook is not called for it, and it
\* is in the next frontier only when a page admitted in this round links to
\* it; so a round that admits nothing is the last one.
C20_RejectedDropped ==
  /\ domain \notin Admissible =>
       /\ round <= 1
       /\ links_visited = {}
       /\ \A u \in URLs : fetch_count[u] = 0
       /\ pc = "done" => (round = 1 /\ links = {})
  /\ Dispatched =>
       \A u \in links \ admitted :
         /\ u \notin links_visited
         /\ dispatch_count[u] = 0
         /\ hook_calls[u] = 0
         /\ task[u] = "none"
  /\ Merged =>
       /\ links \subseteq UNION {YieldOf(u) : u \in admitted}
       /\ admitted = {} => links = {}

\* C20 witness: a crawl() of a blacklisted seed has returned.
C20_Witness ==
  /\ pc = "done"
  /\ mode = "crawl"
  /\ BlacklistContains(configuration.blacklist_url, domain)
  /\ configuration.follow_links = "ALL"
  /\ round = 1
  /\ links_visited = {}

\* C21: the drain of every round of crawl_concurrent and scrape_concurrent
\* ends: the engine has dropped its Sender, and every task spawned in the
\* round sends one message and drops its clone, a task whose fetch failed
\* too. When the drain ends it has received exactly one message for each
\* task the round spawned, none when the round admitted nothing.
C21_CollectEnds ==
  /\ (pc = "collect") ~> (pc = "loop")
  /\ [](pc = "collect" => (~tx /\ received <= Cardinality(admitted)))
  /\ [][ (pc = "collect" /\ pc' = "loop") =>
           /\ received = Cardinality(admitted)
           /\ \A u \in admitted :
                dispatch_count[u] = 1 /\ task[u] = "none" ]_vars

\* C21 witness: the drain of a later round has ended in which every fetch
\* failed, with one message received per task.
C21_Witness ==
  /\ pc = "loop"
  /\ mode \in {"crawl", "scrape"}
  /\ calls = 1
  /\ round >= 2
  /\ admitted # {}
  /\ \A u \in admitted : on_link_find_callback[u] \in down
  /\ received = Cardinality(admitted)

\* C22: a step of a worker task (a spawned closure starting, fetching or
\* sending) leaves links, links_visited and pages as they are; only the
\* engine thread writes them: links in the merge that ends a round, so the
\* frontier stays as it is from the round's dispatch until its last result
\* is collected, links_visited in the dispatch loop, pages in the drain.
C22_WorkersWriteNothing ==
  [][ /\ (\E u \in URLs : task[u] # "none" /\ task'[u] # task[u]) =>
           UNCHANGED << links, links_visited, pages >>
      /\ links' # links =>
           /\ task' = task
           /\ pc' = "loop"
           /\ \/ pc = "collect" /\ chan = << >> /\ Alive = {}
              \/ pc = "seq" /\ iter = {}
      /\ links_visited' # links_visited =>
           (task' = task \/ pc = "dispatch") /\ pc \in {"dispatch", "seq"}
      /\ pages' # pages => (task' = task /\ pc = "collect") ]_vars

\* C22 witness: in a later round on the pool one task has sent its result
\* and another has fetched a page whose links are not in the frontier, which
\* still holds the links the round dispatched.
C22_Witness ==
  /\ pc = "collect"
  /\ round >= 2
  /\ admitted \subseteq links
  /\ ~(discovered \subseteq links)
  /\ \E u, v \in admitted :
       u # v /\ task[u] = "fetched" /\ task[v] = "none"

\* C23: a crawl(), scrape() or crawl_sync() called on a Website whose
\* earlier call has returned changes nothing of the crawl: the frontier is
\* empty when a call returns and the next call does not put the start url
\* back, so no round begins, no task is spawned, nothing is fetched, and
\* links, links_visited and pages stay as they are.
C23_SecondCallNoOp ==
  /\ [](pc = "done" => links = {})
  /\ [][ (pc = "done" \/ calls >= 2) =>
           /\ UNCHANGED << links, links_visited, pages, round, task,
                           fetch_count, hook_calls, dispatch_count >>
           /\ pc' \in {"loop", "done"} ]_vars

\* C23 witness: a crawl() called after a scrape() of several urls has
\* returned.
C23_Witness ==
  /\ pc = "done"
  /\ calls = 2
  /\ mode = "crawl"
  /\ pages # << >>
  /\ Cardinality(links_visited) >= 2

====
